---- MODULE Spec2Model ----
(***************************************************************************)
(* Model of auto_blog.                                                     *)
(*                                                                         *)
(* Spec, FairSpec: the run of main() (src/auto_blog/main.py) against the   *)
(* processed-URL tracking sheet (src/auto_blog/scraper/sheets_handler.py), *)
(* with the per-item pipeline process_rss_item and the post writer         *)
(* PostGenerator.create_post.  A run is a sequence of steps: the start of  *)
(* main() up to the selection loop, one step per loop test and per         *)
(* attempted candidate, and the tail of main() (commit/push, then          *)
(* marking).  The tracking sheet outlives the run; every other variable of *)
(* the run is a local of main().                                           *)
(*                                                                         *)
(* LedgerSpec, BatchSpec: a PostHistory object and its file                *)
(* (src/auto_blog/utils/post_history.py), one step per method call.        *)
(*                                                                         *)
(* FilterSpec: one call of filter_unprocessed_items                        *)
(* (src/auto_blog/webhook_handler/wehbook_handler.py).                     *)
(*                                                                         *)
(* ItemSpec: one call of process_rss_item with the generator of            *)
(* AI_PROVIDER (src/auto_blog/ai_content).                                 *)
(*                                                                         *)
(* StartSpec: main() from validate_config to the first fetch               *)
(* (main.py:266-285, src/auto_blog/config.py).                             *)
(*                                                                         *)
(* FetchSpec: one RSSFetcher over its fetch_all_feeds calls, one step per  *)
(* configured feed (src/auto_blog/rss_fetcher/rss_fetcher.py).             *)
(*                                                                         *)
(* RaceSpec: two processes, each with its own PostHistory, on one ledger   *)
(* file.                                                                   *)
(*                                                                         *)
(* PushSpec: one call of GitHubManager.commit_and_push_changes, one step   *)
(* per git call (src/auto_blog/github_manager/github_manager.py).          *)
(***************************************************************************)
EXTENDS Integers, Sequences, FiniteSets, TLC

\* ------------------------------------------------------------------ bounds

\* Number of distinct article links the feeds can deliver.
NumUrls == 2

\* Largest number of items fetch_all_feeds returns in one run.
MaxItems == 3

\* Largest POSTS_PER_DAY the environment sets.
MaxQuota == 2

\* Longest slug _generate_slug produces (in characters), for the path length.
MaxSlugLen == 1

\* Longest posts_dir path (in characters), for the path length.
MaxDirLen == 1

\* Largest number of feed urls in RSS_FEEDS.
MaxFeeds == 2

\* --------------------------------------------------------- program constants

\* main.py:321  max_retries = 2
max_retries == 2

\* main.py:308  posts_per_day = 1 when POSTS_PER_DAY does not parse
DefaultPostsPerDay == 1

\* post_generator.py:80  filename = f"{date_str}-{slug}.md":
\* 10 characters of date, "-", the slug, ".md"
FilenameFixedLen == 14

\* ------------------------------------------------------------------ values

Urls == 1..NumUrls

\* The lists fetch_all_feeds can return: links in any order, repeats included
\* (items of several feeds are concatenated and sorted by date, never merged).
RECURSIVE SeqsUpTo(_, _)
SeqsUpTo(S, n) ==
    IF n = 0 THEN {<<>>}
    ELSE LET shorter == SeqsUpTo(S, n - 1)
         IN  shorter \cup {Append(s, x) : s \in {t \in shorter : Len(t) = n - 1}, x \in S}

ItemLists == SeqsUpTo(Urls, MaxItems)

Range(s) == {s[i] : i \in 1..Len(s)}

\* The rows a tracking sheet can hold below its header: each set of links, in
\* ascending order.
RECURSIVE SortedSeq(_)
SortedSeq(S) ==
    IF S = {} THEN <<>>
    ELSE LET m == CHOOSE x \in S : \A y \in S : x <= y
         IN  <<m>> \o SortedSeq(S \ {m})

Sheets == {SortedSeq(S) : S \in SUBSET Urls}

\* The integers POSTS_PER_DAY can hold (it can also hold text int() rejects).
PostsPerDayEnv == (-1)..MaxQuota

Min(a, b) == IF a <= b THEN a ELSE b

\* ---------------------------------------------------------- tracking sheet

\* GoogleSheetsHandler.get_processed_urls: column A below the header, or []
\* when the Sheets call raises (api_ok = FALSE).
get_processed_urls(sh, api_ok) == IF api_ok THEN sh ELSE <<>>

\* GoogleSheetsHandler.add_processed_url: writes the row after the last one,
\* or changes nothing (and returns False) when a Sheets call raises.
add_processed_url(sh, url, api_ok) == IF api_ok THEN Append(sh, url) ELSE sh

\* main.py:368-369  for url in processed_urls: sheets_handler.add_processed_url(url)
\* oks[i] tells whether the Sheets calls for the i-th url succeed.
RECURSIVE MarkAll(_, _, _)
MarkAll(sh, urls, oks) ==
    IF urls = <<>> THEN sh
    ELSE MarkAll(add_processed_url(sh, Head(urls), Head(oks)), Tail(urls), Tail(oks))

\* main.py:293-296  unprocessed_items = [item for item in all_items
\*                                       if item.link not in processed_urls]
RECURSIVE FilterUnprocessed(_, _)
FilterUnprocessed(items, done) ==
    IF items = <<>> THEN <<>>
    ELSE IF Head(items) \in Range(done)
         THEN FilterUnprocessed(Tail(items), done)
         ELSE <<Head(items)>> \o FilterUnprocessed(Tail(items), done)

\* ------------------------------------------------------------ one candidate

\* What generate_blog_post does for an item: raises, or returns content with
\* relevant_to_niche false or true.
GenOutcomes == {"raise", "not_relevant", "relevant"}

\* What can happen to one candidate: generation raises or judges the item not
\* relevant (create_post is not called), or the item is relevant and
\* create_post fails or writes a file whose path has some length.
AttemptInputs ==
    {[gen |-> g, wrote |-> FALSE, dirLen |-> 1, slugLen |-> 0] : g \in GenOutcomes}
    \cup {[gen |-> "relevant", wrote |-> TRUE, dirLen |-> d, slugLen |-> l] :
             d \in 1..MaxDirLen, l \in 0..MaxSlugLen}

\* PostGenerator.create_post: the path of the file it wrote (a str), or None
\* when title or content is missing or writing fails.
create_post(written, dirLen, slugLen) ==
    IF written
    THEN [kind |-> "str", len |-> dirLen + 1 + FilenameFixedLen + slugLen]
    ELSE [kind |-> "None", len |-> 0]

\* main.py:238  post_path, automationData = post_generator.create_post(...)
\* The unpacking succeeds only on an iterable of exactly two elements; None
\* raises TypeError and any other length raises ValueError.
UnpackPair(ret) == ret.kind # "None" /\ ret.len = 2

\* process_rss_item: "result" (a (post_path, automationData) tuple), "None"
\* (not relevant) or "AutoBlogError" (every exception leaves as one).
process_rss_item(gen, ret) ==
    IF gen = "raise" THEN "AutoBlogError"
    ELSE IF gen = "not_relevant" THEN "None"
    ELSE IF UnpackPair(ret) THEN "result"
    ELSE "AutoBlogError"

\* ------------------------------------------------------------ post history

\* Oldest age, in days beyond the history window, a record reaches.
MaxAge == 1

\* Longest list passed to add_processed_urls.
MaxBatch == 2

\* post_history.py:21  max_history_days: int = 90 (main.py:88 passes none)
max_history_days == 90

\* The days on which something happens: the first days, and the day one
\* history window after the last of them.
Days == {max_history_days + k : k \in 0..MaxAge} \cup
        {2 * max_history_days + MaxAge}

FirstDay == max_history_days

\* strftime('%Y-%m-%d'): zero-padded fields of fixed width, most significant
\* first.  The day number stands for the calendar date; its text is three
\* zero-padded decimal digits.
FmtDate(day) == <<day \div 100, (day \div 10) % 10, day % 10>>

\* The day a date text names.
DayOf(date) == date[1] * 100 + date[2] * 10 + date[3]

\* Python's str < str: the first differing character decides, a proper prefix
\* is smaller.
RECURSIVE StrLess(_, _)
StrLess(a, b) ==
    IF b = <<>> THEN FALSE
    ELSE IF a = <<>> THEN TRUE
    ELSE IF Head(a) # Head(b) THEN Head(a) < Head(b)
    ELSE StrLess(Tail(a), Tail(b))

\* The comparison with > for >=: a record dated at the cutoff is dropped.
KeepsEntryStrict(date, cutoff_date) == StrLess(cutoff_date, date)

\* post_history.py:74  if date >= cutoff_date
KeepsEntry(date, cutoff_date) == ~StrLess(date, cutoff_date)

\* The history dict: a set of url/date records.
Entry(url, date) == [url |-> url, date |-> date]

UrlsOf(h) == {r.url : r \in h}

\* The ledgers whose records are dated within the given days.
RECURSIVE LedgersOver(_, _)
LedgersOver(urls, days) ==
    IF urls = {} THEN {{}}
    ELSE LET u == CHOOSE x \in urls : TRUE
             rest == LedgersOver(urls \ {u}, days)
         IN  rest \cup {h \cup {Entry(u, FmtDate(d))} : h \in rest, d \in days}

\* The assignment adding a second record instead of replacing the first.
PutKeepOld(h, url, date) == h \cup {Entry(url, date)}

\* post_history.py:89, 101  self.history[url] = date
Put(h, url, date) == {r \in h : r.url # url} \cup {Entry(url, date)}

\* PostHistory.is_url_processed
is_url_processed(h, url) == url \in UrlsOf(h)

\* The ledger file: missing, unparsable, or the JSON of a dict.
FileMissing == [state |-> "missing", data |-> {}]
FileCorrupt == [state |-> "corrupt", data |-> {}]
FileOf(h) == [state |-> "ok", data |-> h]

\* PostHistory._load_history.  With no file, os.makedirs(os.path.dirname(path))
\* runs outside the try and raises when the directory cannot be made (a path
\* without a directory part gives makedirs('')); an unreadable or unparsable
\* file gives {}.
load_history(file, dir_ok) ==
    IF file.state = "missing"
    THEN [raised |-> ~dir_ok, history |-> {}]
    ELSE IF file.state = "corrupt"
         THEN [raised |-> FALSE, history |-> {}]
         ELSE [raised |-> FALSE, history |-> file.data]

\* What a write of the file can do: complete; fail at open (the file stays);
\* fail inside json.dump (open(..., 'w') has truncated the file); or the
\* process dies inside the write (truncated as well).
SaveOutcomes == {"ok", "open_fails", "dump_fails", "crash"}

\* PostHistory._save_history: the file after the call.
save_history(h, file, outcome) ==
    IF outcome = "ok" THEN FileOf(h)
    ELSE IF outcome = "open_fails" THEN file
    ELSE FileCorrupt

\* An except clause that lets the write error through.
SaveRaisesOnFailure(outcome) == outcome \in {"open_fails", "dump_fails"}

\* post_history.py:60-61  except Exception: logger.error(...)
SaveRaises(outcome) == FALSE

\* PostHistory.clean_old_entries: the dict after the call.
clean_old_entries(h, now) ==
    IF h = {} THEN h
    ELSE {r \in h : KeepsEntry(r.date, FmtDate(now - max_history_days))}

\* The loop left after its first url.
SetFirstOnly(h, urls, date) ==
    IF urls = <<>> THEN h ELSE Put(h, Head(urls), date)

\* post_history.py:100-101  for url in urls: self.history[url] = current_date
RECURSIVE SetAll(_, _, _)
SetAll(h, urls, date) ==
    IF urls = <<>> THEN h
    ELSE SetAll(Put(h, Head(urls), date), Tail(urls), date)

\* PostHistory.add_processed_url: the dict and the file after the call.
PostHistory_add_processed_url(h, file, url, date, outcome) ==
    LET m == Put(h, url, date)
    IN  [history |-> m, file |-> save_history(m, file, outcome)]

\* PostHistory.add_processed_urls: the dict and the file after the call.
PostHistory_add_processed_urls(h, file, urls, date, outcome) ==
    LET m == SetAll(h, urls, date)
    IN  [history |-> m, file |-> save_history(m, file, outcome)]

\* add_processed_url called on each url of the list in turn, every write
\* completing.
RECURSIVE AddEach(_, _, _, _)
AddEach(h, file, urls, date) ==
    IF urls = <<>> THEN [history |-> h, file |-> file]
    ELSE LET one == PostHistory_add_processed_url(h, file, Head(urls), date, "ok")
         IN  AddEach(one.history, one.file, Tail(urls), date)

UrlLists == SeqsUpTo(Urls, MaxBatch)

\* A call of a PostHistory method: its name, the urls passed, how the write
\* of the file went ("none": no write), whether the call raised, whether the
\* url passed was in the ledger before, and the writes of the file it made.
Call(name, urls, save, raised, had, writes) ==
    [name |-> name, urls |-> urls, save |-> save, raised |-> raised,
     had |-> had, writes |-> writes]

NoOp == Call("none", <<>>, "none", FALSE, FALSE, 0)

\* ------------------------------------------------------ pre-generation filter

\* The links whose text contains "sale" (.../summer-sale-laptops).
SaleLinks == {1}

\* What a description can be, as far as "sale" goes.
Descriptions == {"plain", "sale", "Sale"}

\* str.lower()
Lower(text) == IF text = "Sale" THEN "sale" ELSE text

\* What item.image_url can be: None, a url beginning with http, other text.
ImageUrls == {"None", "http", "other"}

FeedItems == [link : Urls, description : Descriptions, image_url : ImageUrls]

\* wehbook_handler.py:74  not any(item.link == url for url in processed_urls)
NotProcessed(item, processed) == item.link \notin Range(processed)

\* wehbook_handler.py:76  'sale' not in item.link.lower()
\*                        and 'sale' not in item.description.lower()
NoSale(item) == item.link \notin SaleLinks /\ Lower(item.description) # "sale"

\* wehbook_handler.py:78  item.image_url is not None
\*                        and item.image_url.startswith('http')
HasImage(item) == item.image_url # "None" /\ item.image_url = "http"

\* wehbook_handler.py:72-79  the list comprehension, in input order
RECURSIVE Kept(_, _)
Kept(items, processed) ==
    IF items = <<>> THEN <<>>
    ELSE LET rest == Kept(Tail(items), processed)
             item == Head(items)
         IN  IF NotProcessed(item, processed) /\ NoSale(item) /\ HasImage(item)
             THEN <<item>> \o rest
             ELSE rest

\* random.shuffle: every order of the list.
Shuffles(list) ==
    {[i \in 1..Len(list) |-> list[f[i]]] :
        f \in {g \in [1..Len(list) -> 1..Len(list)] :
                 \A i, j \in 1..Len(list) : g[i] = g[j] => i = j}}

\* filter_unprocessed_items: the lists it can return.
filter_unprocessed_items(all_items, processed) ==
    IF processed = <<>> THEN {all_items}
    ELSE Shuffles(Kept(all_items, processed))

\* ------------------------------------------------------------- AI generators

\* config.py:100  AI_PROVIDER is 'openai' or 'gemini'
Providers == {"openai", "gemini"}

\* What one call of the provider's API gives: an API error, text that is no
\* JSON, or JSON that says the article is not relevant or relevant.
ApiOutcomes == {"error", "unparsable", "not_relevant", "relevant"}

\* The generator failed unrecoverably: an API error, or unparsable output
\* (Gemini asks a second time after unparsable output, OpenAI does not).
GenFailed(provider, api, api2) ==
    \/ api = "error"
    \/ api = "unparsable" /\ (provider = "openai" \/ api2 \in {"error", "unparsable"})

\* GeminiGenerator.generate_blog_post: raises on an API error and on output
\* unparsable twice; otherwise returns the content with relevant_to_niche.
Gemini_generate_blog_post(api, api2) ==
    IF api = "error" THEN "raise"
    ELSE IF api = "unparsable"
         THEN IF api2 \in {"error", "unparsable"} THEN "raise" ELSE api2
         ELSE api

\* OpenAIGenerator.generate_blog_post: never raises.  An error returns the
\* article's title with content "Failed to generate content: ..."; unparsable
\* output returns what the regular expressions extract; the dict it returns
\* has no relevant_to_niche key, which main.py:220 reads as relevant.
OpenAI_generate_blog_post(api) == "relevant"

\* What decides one call of process_rss_item: the item's link, the generator,
\* its API's answers, and whether create_post writes the file, under which
\* directory and slug.
ItemInputs ==
    [link : Urls, provider : Providers, api : ApiOutcomes, api2 : ApiOutcomes,
     wrote : BOOLEAN, dirLen : 1..MaxDirLen, slugLen : 0..MaxSlugLen]

NoItemIn ==
    [link |-> 1, provider |-> "openai", api |-> "relevant", api2 |-> "relevant",
     wrote |-> FALSE, dirLen |-> 1, slugLen |-> 0]

NoItemOut == [gen |-> "none", outcome |-> "none", written |-> FALSE, batch |-> <<>>]

\* AIFactory.create_generator(...).generate_blog_post
generate_blog_post(provider, api, api2) ==
    IF provider = "openai" THEN OpenAI_generate_blog_post(api)
    ELSE Gemini_generate_blog_post(api, api2)

\* ------------------------------------------------------------ exit codes

\* The exit code of a process that has not ended.
StillRunning == -1

\* Both except clauses only log: the process ends as if nothing had happened.
ExitCodeLogsOnly(raised) == IF raised = "SystemExit" THEN 1 ELSE 0

\* main.py:268-378  what the try statement of main() makes of an exception
\* raised in its body: SystemExit (sys.exit(1) at line 274) is no Exception
\* and passes through; AutoBlogError and any other Exception are logged and
\* answered with sys.exit(1); without an exception main() returns and the
\* interpreter exits with 0.
ExitCode(raised) == IF raised = "none" THEN 0 ELSE 1

\* ------------------------------------------------------------------- state

VARIABLES
    pc,                   \* where main() is: idle, outer, inner, tail, ended
    sheet,                \* rows of the tracking sheet below the header
    sheet_urls,           \* main.py:289  processed_urls as read from the sheet
    unprocessed_items,    \* main.py:293
    posts_per_day,        \* main.py:306
    num_posts,            \* main.py:311
    created_post_paths,   \* main.py:312
    processed_urls,       \* main.py:313  the run's batch
    automation_payloads,  \* main.py:314
    current_item_idx,     \* main.py:317
    successfully_processed, \* main.py:318
    retry_count,          \* main.py:322
    success,              \* main.py:323
    run_result,           \* how the run ended
    exit_code,            \* the exit code of the process, once it has ended
    sheet0,               \* history: the sheet when the run started
    attempts,             \* history: the candidates passed to process_rss_item
    slot,                 \* history: passes of the outer loop so far
    commit_calls          \* history: calls of commit_and_push_changes

\* A PostHistory object and its file (src/auto_blog/utils/post_history.py):
\*   pc        "off", "none" (no object) or "live" (constructed)
\*   history   post_history.py:31  self.history
\*   file      the file at history_file_path
\*   today     datetime.now(), as a day
\*   op        history: the last call and how its write went
\*   survive   history: urls the file held and a dying write kept
VARIABLE ledger

\* One call of filter_unprocessed_items (webhook_handler/wehbook_handler.py):
\*   pc "off", "called" or "returned"; the arguments all_items and
\*   processed_urls; result, the list returned.
VARIABLE filter_call

\* One call of process_rss_item with the configured generator:
\*   pc "off", "called" or "returned"; in, the item's link and what its
\*   collaborators do; out, how the call ended.
VARIABLE item_call

\* One start of main() (main.py:266-285), from the configuration loaded by
\* config.py to the first fetch:
\*   pc "off", "called" or "done"; cfg, the configuration; errors, what
\*   validate_config returned; steps, the calls made, in order; exit_code.
VARIABLE startup

\* One RSSFetcher (rss_fetcher/rss_fetcher.py) over its fetch_all_feeds calls.
VARIABLE fetcher

\* One call of GitHubManager.commit_and_push_changes and the repository.
VARIABLE repo

\* The ledger file with the PostHistory objects of two processes.
VARIABLE race

otherVars == <<startup, fetcher, repo, race>>

mainVars == <<pc, sheet, sheet_urls, unprocessed_items, posts_per_day,
              num_posts, created_post_paths, processed_urls, automation_payloads,
              current_item_idx, successfully_processed, retry_count, success,
              run_result, exit_code, sheet0, attempts, slot, commit_calls>>

vars == <<mainVars, ledger, filter_call, item_call, otherVars>>

loopVars == <<created_post_paths, processed_urls, automation_payloads,
              current_item_idx, successfully_processed, retry_count, success>>

MainInit ==
    /\ pc = "idle"
    /\ sheet \in Sheets
    /\ sheet_urls = <<>>
    /\ unprocessed_items = <<>>
    /\ posts_per_day = 0
    /\ num_posts = 0
    /\ created_post_paths = <<>>
    /\ processed_urls = <<>>
    /\ automation_payloads = <<>>
    /\ current_item_idx = 0
    /\ successfully_processed = 0
    /\ retry_count = 0
    /\ success = FALSE
    /\ run_result = "none"
    /\ exit_code = StillRunning
    /\ sheet0 = sheet
    /\ attempts = <<>>
    /\ slot = 0
    /\ commit_calls = 0

\* No PostHistory call is under way.
LedgerOff ==
    ledger = [pc |-> "off", history |-> {}, file |-> FileMissing,
              today |-> FirstDay, op |-> NoOp, survive |-> {}]

\* No filter_unprocessed_items call is under way.
FilterOff ==
    filter_call = [pc |-> "off", all_items |-> <<>>, processed_urls |-> <<>>,
                   result |-> <<>>]

\* No separate process_rss_item call is under way.
ItemOff ==
    item_call = [pc |-> "off", in |-> NoItemIn, out |-> NoItemOut]

\* main() is not running.
MainOff ==
    /\ pc = "off"
    /\ sheet = <<>>
    /\ sheet_urls = <<>>
    /\ unprocessed_items = <<>>
    /\ posts_per_day = 0
    /\ num_posts = 0
    /\ created_post_paths = <<>>
    /\ processed_urls = <<>>
    /\ automation_payloads = <<>>
    /\ current_item_idx = 0
    /\ successfully_processed = 0
    /\ retry_count = 0
    /\ success = FALSE
    /\ run_result = "none"
    /\ exit_code = StillRunning
    /\ sheet0 = <<>>
    /\ attempts = <<>>
    /\ slot = 0
    /\ commit_calls = 0

\* No separate start of main() is under way.
StartOff ==
    startup = [pc |-> "off", cfg |-> <<>>, errors |-> {}, steps |-> <<>>,
               exit_code |-> 0]

\* No RSSFetcher is under observation.
FetchOff == fetcher = [pc |-> "off"]

\* No commit_and_push_changes call is under observation.
RepoOff == repo = [pc |-> "off"]

\* No pair of processes is under observation.
RaceOff == race = [pc |-> "off"]

OthersOff == StartOff /\ FetchOff /\ RepoOff /\ RaceOff

Init == MainInit /\ LedgerOff /\ FilterOff /\ ItemOff /\ OthersOff

\* A fresh process: every local of main() as it is before line 266.
FreshRun ==
    /\ created_post_paths' = <<>>
    /\ processed_urls' = <<>>
    /\ automation_payloads' = <<>>
    /\ current_item_idx' = 0
    /\ successfully_processed' = 0
    /\ retry_count' = 0
    /\ success' = FALSE
    /\ sheet0' = sheet
    /\ attempts' = <<>>
    /\ slot' = 0
    /\ commit_calls' = 0

CanStart == pc = "idle"

\* main.py:270-274  validate_config() returns errors: sys.exit(1)
ConfigError ==
    /\ CanStart
    /\ UNCHANGED <<ledger, filter_call, item_call, otherVars>>
    /\ pc' = "ended"
    /\ run_result' = "exit_1_config"
    /\ exit_code' = ExitCode("SystemExit")
    /\ sheet_urls' = <<>> /\ unprocessed_items' = <<>>
    /\ posts_per_day' = 0 /\ num_posts' = 0
    /\ FreshRun
    /\ UNCHANGED sheet

\* main.py:281-282, 373-375  initialize_components raises AutoBlogError: sys.exit(1)
InitError ==
    /\ CanStart
    /\ UNCHANGED <<ledger, filter_call, item_call, otherVars>>
    /\ pc' = "ended"
    /\ run_result' = "exit_1_init"
    /\ exit_code' = ExitCode("AutoBlogError")
    /\ sheet_urls' = <<>> /\ unprocessed_items' = <<>>
    /\ posts_per_day' = 0 /\ num_posts' = 0
    /\ FreshRun
    /\ UNCHANGED sheet

\* main.py:306-309  int(os.getenv('POSTS_PER_DAY', '1')), 1 on ValueError
ParsePostsPerDay(parses, env) == IF parses THEN env ELSE DefaultPostsPerDay

\* main.py:284-301  fetch, read the sheet, filter; nothing left: return
NoNewArticles ==
    /\ CanStart
    /\ UNCHANGED <<ledger, filter_call, item_call, otherVars>>
    /\ \E items \in ItemLists, api_ok \in BOOLEAN :
         LET read == get_processed_urls(sheet, api_ok)
             left == FilterUnprocessed(items, read)
         IN  /\ left = <<>>
             /\ sheet_urls' = read
             /\ unprocessed_items' = left
    /\ pc' = "ended"
    /\ run_result' = "return_no_new"
    /\ exit_code' = ExitCode("none")
    /\ posts_per_day' = 0 /\ num_posts' = 0
    /\ FreshRun
    /\ UNCHANGED sheet

\* main.py:284-318  fetch, read the sheet, filter, read the quota, enter the loop
BeginSelection ==
    /\ CanStart
    /\ UNCHANGED <<ledger, filter_call, item_call, otherVars>>
    /\ \E items \in ItemLists, api_ok \in BOOLEAN, env \in PostsPerDayEnv,
          parses \in BOOLEAN :
         LET read == get_processed_urls(sheet, api_ok)
             left == FilterUnprocessed(items, read)
         IN  /\ left # <<>>
             /\ sheet_urls' = read
             /\ unprocessed_items' = left
             /\ posts_per_day' = ParsePostsPerDay(parses, env)
             /\ num_posts' = Min(Len(left), ParsePostsPerDay(parses, env))
    /\ pc' = "outer"
    /\ run_result' = "running"
    /\ exit_code' = StillRunning
    /\ FreshRun
    /\ UNCHANGED sheet

\* ------------------------------------------------------- the selection loop

\* The outer test with <= for <: a slot opens although the quota is met.
OuterGuardOffByOne(done, quota, idx, n) == done <= quota /\ idx < n

\* main.py:320  while successfully_processed < num_posts
\*                    and current_item_idx < len(unprocessed_items)
OuterGuard(done, quota, idx, n) == done < quota /\ idx < n

\* The inner test with <= for <: one more candidate per slot.
InnerGuardOffByOne(succ, retries) == ~succ /\ retries <= max_retries

\* main.py:325  while not success and retry_count < max_retries
InnerGuard(succ, retries) == ~succ /\ retries < max_retries

\* The increment forgotten: the same candidate is taken again.
NextIdxStuck(idx) == idx

\* main.py:331  current_item_idx += 1
NextIdx(idx) == idx + 1

\* The appends moved out of the "if result:" branch: every attempted
\* candidate enters the batch.
BatchAppendAlways(outcome, batch, entry) == Append(batch, entry)

\* main.py:342-346  a result appends one entry to each list of the batch;
\* None and AutoBlogError append nothing.
BatchAppend(outcome, batch, entry) ==
    IF outcome = "result" THEN Append(batch, entry) ELSE batch

\* main.py:350-356  None and AutoBlogError count against the slot's retries.
RetryAfter(outcome, retries) ==
    IF outcome = "result" THEN retries ELSE retries + 1

\* main.py:320-323  the outer test holds: a new slot starts
OuterEnter ==
    /\ pc = "outer"
    /\ UNCHANGED <<ledger, filter_call, item_call, otherVars>>
    /\ OuterGuard(successfully_processed, num_posts, current_item_idx,
                  Len(unprocessed_items))
    /\ retry_count' = 0
    /\ success' = FALSE
    /\ slot' = slot + 1
    /\ pc' = "inner"
    /\ UNCHANGED <<sheet, sheet_urls, unprocessed_items, posts_per_day,
                   num_posts, created_post_paths, processed_urls,
                   automation_payloads, current_item_idx, successfully_processed,
                   run_result, exit_code, sheet0, attempts, commit_calls>>

\* main.py:320  the outer test fails: the loop is over
OuterExit ==
    /\ pc = "outer"
    /\ UNCHANGED <<ledger, filter_call, item_call, otherVars>>
    /\ ~OuterGuard(successfully_processed, num_posts, current_item_idx,
                   Len(unprocessed_items))
    /\ pc' = "tail"
    /\ UNCHANGED <<sheet, sheet_urls, unprocessed_items, posts_per_day,
                   num_posts, run_result, exit_code, sheet0, attempts, slot,
                   commit_calls>>
    /\ UNCHANGED loopVars

\* main.py:325  the inner test fails: the slot is closed or abandoned
InnerExit ==
    /\ pc = "inner"
    /\ UNCHANGED <<ledger, filter_call, item_call, otherVars>>
    /\ ~InnerGuard(success, retry_count)
    /\ pc' = "outer"
    /\ UNCHANGED <<sheet, sheet_urls, unprocessed_items, posts_per_day,
                   num_posts, run_result, exit_code, sheet0, attempts, slot,
                   commit_calls>>
    /\ UNCHANGED loopVars

\* main.py:326-328  no candidate is left: break
InnerBreak ==
    /\ pc = "inner"
    /\ UNCHANGED <<ledger, filter_call, item_call, otherVars>>
    /\ InnerGuard(success, retry_count)
    /\ current_item_idx >= Len(unprocessed_items)
    /\ pc' = "outer"
    /\ UNCHANGED <<sheet, sheet_urls, unprocessed_items, posts_per_day,
                   num_posts, run_result, exit_code, sheet0, attempts, slot,
                   commit_calls>>
    /\ UNCHANGED loopVars

\* An except clause that matches no exception process_rss_item raises.
LoopCatchesNothing(outcome) == FALSE

\* main.py:354  except AutoBlogError (ContentGenerationError, PostCreationError
\* and ImageProcessingError are subclasses, utils/exceptions.py:9-17)
LoopCatches(outcome) == outcome = "AutoBlogError"

\* process_rss_item raised and the loop's except clause does not match:
\* main.py:373-378 logs the error and exits.
Escapes(outcome) == outcome = "AutoBlogError" /\ ~LoopCatches(outcome)

\* main.py:330-356  take the next candidate and process it
Attempt ==
    /\ pc = "inner"
    /\ UNCHANGED <<ledger, filter_call, item_call, otherVars>>
    /\ InnerGuard(success, retry_count)
    /\ current_item_idx < Len(unprocessed_items)
    /\ \E in \in AttemptInputs :
         LET item == unprocessed_items[current_item_idx + 1]
             written == in.gen = "relevant" /\ in.wrote
             outcome == process_rss_item(in.gen,
                            create_post(written, in.dirLen, in.slugLen))
         IN  /\ current_item_idx' = NextIdx(current_item_idx)
             /\ created_post_paths' = BatchAppend(outcome, created_post_paths, item)
             /\ processed_urls' = BatchAppend(outcome, processed_urls, item)
             /\ automation_payloads' = BatchAppend(outcome, automation_payloads, item)
             /\ success' = (outcome = "result")
             /\ successfully_processed' =
                    IF outcome = "result" THEN successfully_processed + 1
                    ELSE successfully_processed
             /\ retry_count' = IF Escapes(outcome) THEN retry_count
                                ELSE RetryAfter(outcome, retry_count)
             /\ attempts' = Append(attempts,
                    [pos |-> current_item_idx + 1, link |-> item, slot |-> slot,
                     written |-> written, outcome |-> outcome])
             /\ pc' = IF Escapes(outcome) THEN "ended" ELSE "inner"
             /\ run_result' = IF Escapes(outcome) THEN "exit_1_unexpected"
                               ELSE run_result
             /\ exit_code' = IF Escapes(outcome) THEN ExitCode("AutoBlogError")
                              ELSE exit_code
    /\ UNCHANGED <<sheet, sheet_urls, unprocessed_items, posts_per_day,
                   num_posts, sheet0, slot, commit_calls>>

\* ------------------------------------------------------------ after the loop

\* The test dropped: every run that leaves the loop commits and pushes.
ShouldCommitAlways(batch) == TRUE

\* main.py:359  if processed_urls:
ShouldCommit(batch) == batch # <<>>

\* main.py:358-371  an empty batch ends the run; otherwise commit and push,
\* return on failure, and mark each url of the batch in the sheet.
Finish ==
    /\ pc = "tail"
    /\ UNCHANGED <<ledger, filter_call, item_call, otherVars>>
    /\ IF ~ShouldCommit(processed_urls)
       THEN /\ run_result' = "completed"
            /\ UNCHANGED <<sheet, commit_calls>>
       ELSE \E pushed \in BOOLEAN, oks \in [1..Len(processed_urls) -> BOOLEAN] :
              /\ commit_calls' = commit_calls + 1
              /\ IF pushed
                 THEN /\ sheet' = MarkAll(sheet, processed_urls, oks)
                      /\ run_result' = "completed"
                 ELSE /\ sheet' = sheet
                      /\ run_result' = "return_push_failed"
    /\ pc' = "ended"
    /\ exit_code' = ExitCode("none")
    /\ UNCHANGED <<sheet_urls, unprocessed_items, posts_per_day,
                   num_posts, sheet0, attempts, slot>>
    /\ UNCHANGED loopVars

\* The process is gone: its locals with it.  The sheet stays.
ProcessExit ==
    /\ pc = "ended"
    /\ UNCHANGED <<ledger, filter_call, item_call, otherVars>>
    /\ pc' = "idle"
    /\ run_result' = "none"
    /\ exit_code' = StillRunning
    /\ sheet_urls' = <<>> /\ unprocessed_items' = <<>>
    /\ posts_per_day' = 0 /\ num_posts' = 0
    /\ FreshRun
    /\ UNCHANGED sheet

LoopStep == OuterEnter \/ OuterExit \/ InnerExit \/ InnerBreak \/ Attempt

Next ==
    \/ ConfigError
    \/ InitError
    \/ NoNewArticles
    \/ BeginSelection
    \/ OuterEnter
    \/ OuterExit
    \/ InnerExit
    \/ InnerBreak
    \/ Attempt
    \/ Finish
    \/ ProcessExit

Spec == Init /\ [][Next]_vars

\* A started run keeps executing: main() is sequential code with no wait.
FairSpec == Spec /\ WF_vars(LoopStep \/ Finish)

\* ---------------------------------------------------- PostHistory at work

\* The ledger files there can be before the first call.
FirstFiles ==
    {FileMissing, FileCorrupt} \cup {FileOf(h) : h \in LedgersOver(Urls, {FirstDay})}

LedgerInit ==
    ledger \in [pc : {"none"}, history : {{}}, file : FirstFiles,
                today : {FirstDay}, op : {NoOp}, survive : {{}}]

\* PostHistory.__init__ (post_history.py:21-31)
Construct ==
    /\ ledger.pc = "none"
    /\ \E dir_ok \in BOOLEAN :
         LET r == load_history(ledger.file, dir_ok)
         IN  ledger' = [ledger EXCEPT
                           !.pc = IF r.raised THEN "none" ELSE "live",
                           !.history = r.history,
                           !.op = Call("load", <<>>, "none", r.raised, FALSE, 0)]
    /\ UNCHANGED <<mainVars, filter_call, item_call, otherVars>>

\* The object and its file after a call that leaves the dict h and the file
\* file, its write having gone as outcome says: a process that dies in the
\* write is gone, its dict with it.
AfterSave(h, file, outcome, call) ==
    [pc |-> IF outcome = "crash" THEN "none" ELSE "live",
     history |-> IF outcome = "crash" THEN {} ELSE h,
     file |-> file,
     today |-> ledger.today,
     op |-> call,
     survive |-> IF outcome = "crash"
                 THEN UrlsOf(ledger.file.data) \cap UrlsOf(h)
                 ELSE {}]

\* PostHistory.clean_old_entries (post_history.py:63-80)
Clean ==
    /\ ledger.pc = "live"
    /\ LET kept == clean_old_entries(ledger.history, ledger.today)
       IN  IF Cardinality(kept) # Cardinality(ledger.history)
           THEN \E outcome \in SaveOutcomes :
                  ledger' = AfterSave(kept,
                                save_history(kept, ledger.file, outcome), outcome,
                                Call("clean", <<>>, outcome, SaveRaises(outcome),
                                     FALSE, 1))
           ELSE ledger' = AfterSave(kept, ledger.file, "none",
                              Call("clean", <<>>, "none", FALSE, FALSE, 0))
    /\ UNCHANGED <<mainVars, filter_call, item_call, otherVars>>

\* PostHistory.add_processed_url (post_history.py:82-90)
Add ==
    /\ ledger.pc = "live"
    /\ \E url \in Urls, outcome \in SaveOutcomes :
         LET r == PostHistory_add_processed_url(ledger.history, ledger.file, url,
                                                FmtDate(ledger.today), outcome)
         IN  ledger' = AfterSave(r.history, r.file, outcome,
                           Call("add", <<url>>, outcome, SaveRaises(outcome),
                                is_url_processed(ledger.history, url), 1))
    /\ UNCHANGED <<mainVars, filter_call, item_call, otherVars>>

\* PostHistory.add_processed_urls (post_history.py:92-102)
AddMany ==
    /\ ledger.pc = "live"
    /\ \E urls \in UrlLists, outcome \in SaveOutcomes :
         LET r == PostHistory_add_processed_urls(ledger.history, ledger.file, urls,
                                                 FmtDate(ledger.today), outcome)
         IN  ledger' = AfterSave(r.history, r.file, outcome,
                           Call("add_many", urls, outcome, SaveRaises(outcome),
                                FALSE, 1))
    /\ UNCHANGED <<mainVars, filter_call, item_call, otherVars>>

\* The process ends, or dies, outside a write: the file is as it was.
ProcessEnd ==
    /\ ledger.pc = "live"
    /\ ledger' = [ledger EXCEPT
                     !.pc = "none",
                     !.history = {},
                     !.survive = UrlsOf(ledger.file.data),
                     !.op = Call("exit", <<>>, "none", FALSE, FALSE, 0)]
    /\ UNCHANGED <<mainVars, filter_call, item_call, otherVars>>

\* Days pass.
Tick ==
    /\ \E day \in Days :
         /\ day > ledger.today
         /\ ledger' = [ledger EXCEPT
                          !.today = day,
                          !.op = Call("tick", <<>>, "none", FALSE, FALSE, 0)]
    /\ UNCHANGED <<mainVars, filter_call, item_call, otherVars>>

\* Marking url by url and pruning, over the days.
LedgerNext ==
    \/ Construct
    \/ Clean
    \/ Add
    \/ ProcessEnd
    \/ Tick

LedgerStart == MainOff /\ LedgerInit /\ FilterOff /\ ItemOff /\ OthersOff

LedgerSpec == LedgerStart /\ [][LedgerNext]_vars

\* Marking url by url and in batches, within one day.
BatchNext ==
    \/ Construct
    \/ Add
    \/ AddMany
    \/ ProcessEnd

BatchSpec == LedgerStart /\ [][BatchNext]_vars

\* ------------------------------------------ filter_unprocessed_items at work

FilterInit ==
    filter_call \in [pc : {"called"}, all_items : SeqsUpTo(FeedItems, MaxBatch),
                     processed_urls : Sheets, result : {<<>>}]

\* filter_unprocessed_items (wehbook_handler.py:58-83)
ApplyFilter ==
    /\ filter_call.pc = "called"
    /\ \E returned \in filter_unprocessed_items(filter_call.all_items,
                                                filter_call.processed_urls) :
         filter_call' = [filter_call EXCEPT !.pc = "returned",
                                            !.result = returned]
    /\ UNCHANGED <<mainVars, ledger, item_call, otherVars>>

FilterStart == MainOff /\ LedgerOff /\ FilterInit /\ ItemOff /\ OthersOff

FilterSpec == FilterStart /\ [][ApplyFilter]_vars

\* --------------------------------------------------- process_rss_item at work

ItemInit ==
    item_call \in [pc : {"called"}, in : ItemInputs, out : {NoItemOut}]

\* process_rss_item (main.py:178-259) with the generator of AI_PROVIDER, and
\* what main.py:342-346 makes of its result in an empty batch.
ProcessItem ==
    /\ item_call.pc = "called"
    /\ LET in == item_call.in
           gen == generate_blog_post(in.provider, in.api, in.api2)
           written == gen = "relevant" /\ in.wrote
           outcome == process_rss_item(gen,
                          create_post(written, in.dirLen, in.slugLen))
       IN  item_call' = [item_call EXCEPT
                            !.pc = "returned",
                            !.out = [gen |-> gen, outcome |-> outcome,
                                     written |-> written,
                                     batch |-> BatchAppend(outcome, <<>>, in.link)]]
    /\ UNCHANGED <<mainVars, ledger, filter_call, otherVars>>

ItemStart == MainOff /\ LedgerOff /\ FilterOff /\ ItemInit /\ OthersOff

ItemSpec == ItemStart /\ [][ProcessItem]_vars

\* ------------------------------------------------------ the start of main()

\* The settings config.py reads at import (config.py:37-70): whether each
\* required value is set, whether RSS_FEEDS names a feed, and AI_PROVIDER.
ConfigValues ==
    [GITHUB_TOKEN : BOOLEAN, GITHUB_USERNAME : BOOLEAN, GITHUB_REPO : BOOLEAN,
     GITHUB_EMAIL : BOOLEAN, RSS_FEEDS : BOOLEAN,
     AI_PROVIDER : Providers \cup {"other"},
     OPENAI_API_KEY : BOOLEAN, GEMINI_API_KEY : BOOLEAN]

\* config.validate_config (config.py:78-109): the errors it returns, each
\* named by the setting it is about.
validate_config(cfg) ==
    {k \in {"GITHUB_TOKEN", "GITHUB_USERNAME", "GITHUB_REPO", "GITHUB_EMAIL",
            "RSS_FEEDS"} : ~cfg[k]}
    \cup (IF cfg.AI_PROVIDER \notin Providers THEN {"AI_PROVIDER"} ELSE {})
    \cup (IF cfg.AI_PROVIDER = "openai" /\ ~cfg.OPENAI_API_KEY
          THEN {"OPENAI_API_KEY"} ELSE {})
    \cup (IF cfg.AI_PROVIDER = "gemini" /\ ~cfg.GEMINI_API_KEY
          THEN {"GEMINI_API_KEY"} ELSE {})

\* initialize_components (main.py:62-131): the calls it makes, in order.
\* clean_old_entries rewrites the ledger file when it drops a record.
InitSteps ==
    <<"GitHubManager", "ensure_repo_exists", "pull_latest_changes",
      "GoogleSheetsHandler", "PostHistory", "clean_old_entries", "RSSFetcher",
      "create_generator", "makedirs", "ImageHandler", "PostGenerator">>

\* The calls of InitSteps that can fail: ensure_repo_exists and
\* pull_latest_changes return False (main.py:73-77), the others raise.
\* GitHubManager.__init__ swallows its errors (github_manager.py:57-77),
\* clean_old_entries swallows a failed write (post_history.py:60-61) and
\* RSSFetcher.__init__ only assigns.  cfg holds no google_credentials_file
\* (config.py:115-146), so GoogleSheetsHandler is built from None: whether the
\* Google client accepts that is decided outside the source.
CanFail ==
    {i \in 1..Len(InitSteps) :
        InitSteps[i] \notin {"GitHubManager", "clean_old_entries", "RSSFetcher"}}

\* initialize_components (main.py:48-134) when its fail_at-th call fails
\* (0: none does): the calls made and whether AutoBlogError is raised.
initialize_components(fail_at) ==
    IF fail_at = 0
    THEN [steps |-> InitSteps, raised |-> FALSE]
    ELSE [steps |-> SubSeq(InitSteps, 1, fail_at), raised |-> TRUE]

\* The components are set up before the configuration is looked at.
main_start_ValidatesLate(cfg, fail_at) ==
    LET init == initialize_components(fail_at)
    IN  IF init.raised
        THEN [errors |-> {}, steps |-> <<"get_config">> \o init.steps,
              exit_code |-> ExitCode("AutoBlogError")]
        ELSE IF validate_config(cfg) # {}
        THEN [errors |-> validate_config(cfg),
              steps |-> <<"get_config">> \o init.steps \o <<"validate_config">>,
              exit_code |-> ExitCode("SystemExit")]
        ELSE [errors |-> {},
              steps |-> <<"get_config">> \o init.steps
                        \o <<"validate_config", "fetch_all_feeds">>,
              exit_code |-> StillRunning]

\* main.py:266-285  main() up to the first fetch: validate the configuration
\* and exit on an error; read it; set up the components and exit when that
\* fails; fetch the feeds.
main_start(cfg, fail_at) ==
    LET errors == validate_config(cfg)
        init == initialize_components(fail_at)
    IN  IF errors # {}
        THEN [errors |-> errors, steps |-> <<"validate_config">>,
              exit_code |-> ExitCode("SystemExit")]
        ELSE IF init.raised
        THEN [errors |-> errors,
              steps |-> <<"validate_config", "get_config">> \o init.steps,
              exit_code |-> ExitCode("AutoBlogError")]
        ELSE [errors |-> errors,
              steps |-> <<"validate_config", "get_config">> \o init.steps
                        \o <<"fetch_all_feeds">>,
              exit_code |-> StillRunning]

StartInit ==
    startup \in [pc : {"called"}, cfg : ConfigValues, errors : {{}},
                 steps : {<<>>}, exit_code : {StillRunning}]

\* main.py:266-285
StartMain ==
    /\ startup.pc = "called"
    /\ \E fail_at \in {0} \cup CanFail :
         LET r == main_start(startup.cfg, fail_at)
         IN  startup' = [startup EXCEPT !.pc = "done", !.errors = r.errors,
                                        !.steps = r.steps,
                                        !.exit_code = r.exit_code]
    /\ UNCHANGED <<mainVars, ledger, filter_call, item_call, fetcher, repo, race>>

StartStart ==
    MainOff /\ LedgerOff /\ FilterOff /\ ItemOff /\ StartInit /\ FetchOff
    /\ RepoOff /\ RaceOff

StartSpec == StartStart /\ [][StartMain]_vars

\* ------------------------------------------------------------- RSS fetcher

\* The feed urls RSS_FEEDS can name, as lists of characters: the empty text
\* (a stray comma), a blank, a url, a url that contains it, an unrelated url.
FeedUrls ==
    {<<>>, <<" ">>, <<"a">>, <<"a", "b">>, <<"b">>}

\* str.strip() (rss_fetcher.py:131): the text without its leading and
\* trailing blanks.
RECURSIVE Strip(_)
Strip(text) ==
    IF text = <<>> THEN <<>>
    ELSE IF Head(text) = " " THEN Strip(Tail(text))
    ELSE IF text[Len(text)] = " " THEN Strip(SubSeq(text, 1, Len(text) - 1))
    ELSE text

\* Python's `problem in url` for two strings: problem occurs in url.
IsSubstring(problem, url) ==
    \E k \in 0..(Len(url) - Len(problem)) :
        SubSeq(url, k + 1, k + Len(problem)) = problem

\* RSSFetcher._is_problematic_feed (rss_fetcher.py:116-118)
is_problematic_feed(problematic_feeds, url) ==
    \E problem \in problematic_feeds : IsSubstring(problem, url)

\* rss_fetcher.py:82  self.max_consecutive_timeouts = 2
max_consecutive_timeouts == 2

\* The dates an entry can carry (RSSItem.published_date, rss_fetcher.py:33).
PublishedDates == {1, 2}

\* RSSItem (rss_fetcher.py:26-37), by its link and its date.
RssItems == [link : Urls, published_date : PublishedDates]

\* What one fetch of a feed can meet: a timeout, another error, or a parsed
\* feed whose entries yield the items of one of these lists.
FeedOutcomes ==
    {[kind |-> k, items |-> <<>>] : k \in {"timeout", "error", "ok"}}
    \cup {[kind |-> "ok", items |-> <<x>>] : x \in RssItems}

\* RSSFetcher.fetch_feed (rss_fetcher.py:179-292): TimeoutError is raised
\* again (287-289), every other exception is logged and answered with []
\* (290-292), so TimeoutError is the only exception that leaves it.
fetch_feed(outcome) ==
    [raised |-> outcome.kind = "timeout",
     items |-> IF outcome.kind = "ok" THEN outcome.items ELSE <<>>]

\* The feed joins the problematic ones one timeout too late.
ReachedLimitLate(count) == count > max_consecutive_timeouts

\* rss_fetcher.py:159  if self.feed_timeout_count[url] >= self.max_consecutive_timeouts
ReachedLimit(count) == count >= max_consecutive_timeouts

\* The timeout ends the whole loop over the feeds.
AfterTimeoutAbort(i, n) == n + 1

\* rss_fetcher.py:166  break (out of the retry loop): on to the next feed
AfterTimeout(i, n) == i + 1

\* list.sort(key=published_date, reverse=True) (rss_fetcher.py:176): by date,
\* newest first, items of one date in the order they had.
RECURSIVE SortNewestFirst(_)
SortNewestFirst(items) ==
    IF items = <<>> THEN <<>>
    ELSE LET newest == CHOOSE i \in 1..Len(items) :
                          /\ \A j \in 1..Len(items) :
                                items[j].published_date <= items[i].published_date
                          /\ \A j \in 1..(i - 1) :
                                items[j].published_date < items[i].published_date
         IN  <<items[newest]>>
             \o SortNewestFirst(SubSeq(items, 1, newest - 1)
                                \o SubSeq(items, newest + 1, Len(items)))
\* The fetcher main() builds: RSS_FEEDS split at the commas (config.py:68),
\* no known problematic feed (main.py:98), no timeout counted.
\*   pc                  "off", "idle" (between calls) or "fetching"
\*   rss_urls            rss_fetcher.py:66
\*   problematic_feeds   rss_fetcher.py:74  (as a set: a url is appended once)
\*   feed_timeout_count  rss_fetcher.py:80  (0: the url is no key)
\*   i                   the position of the url the loop of line 129 is at
\*   all_items           rss_fetcher.py:127; after the call, the list returned
\*   log                 history: what the call did at each position so far
FetchInit ==
    fetcher \in [pc : {"idle"},
                 rss_urls : SeqsUpTo(FeedUrls, MaxFeeds) \ {<<>>},
                 problematic_feeds : {{}},
                 feed_timeout_count : {[u \in FeedUrls |-> 0]},
                 i : {0}, all_items : {<<>>}, log : {<<>>}]

\* rss_fetcher.py:127  a call starts
BeginFetchAll ==
    /\ fetcher.pc = "idle"
    /\ fetcher' = [fetcher EXCEPT !.pc = "fetching", !.i = 1,
                                  !.all_items = <<>>, !.log = <<>>]
    /\ UNCHANGED <<mainVars, ledger, filter_call, item_call, startup, repo, race>>

\* rss_fetcher.py:129-137  a blank url or a problematic feed: continue
SkipFeed ==
    /\ fetcher.pc = "fetching"
    /\ fetcher.i <= Len(fetcher.rss_urls)
    /\ LET url == fetcher.rss_urls[fetcher.i]
           blank == Strip(url) = <<>>
       IN  /\ blank \/ is_problematic_feed(fetcher.problematic_feeds, url)
           /\ fetcher' = [fetcher EXCEPT
                 !.i = fetcher.i + 1,
                 !.log = Append(fetcher.log,
                           [url |-> url,
                            did |-> IF blank THEN "blank" ELSE "problematic",
                            items |-> <<>>])]
    /\ UNCHANGED <<mainVars, ledger, filter_call, item_call, startup, repo, race>>

\* rss_fetcher.py:139-173  fetch the feed: extend all_items and forget the
\* url's timeouts, or count the timeout and give the feed up for this call.
\* fetch_feed raises nothing but TimeoutError, so the retry of lines 167-173
\* never runs.
FetchFeed ==
    /\ fetcher.pc = "fetching"
    /\ fetcher.i <= Len(fetcher.rss_urls)
    /\ LET url == fetcher.rss_urls[fetcher.i]
       IN  /\ Strip(url) # <<>>
           /\ ~is_problematic_feed(fetcher.problematic_feeds, url)
           /\ \E outcome \in FeedOutcomes :
                LET r == fetch_feed(outcome)
                    count == fetcher.feed_timeout_count[url] + 1
                IN  IF r.raised
                    THEN fetcher' = [fetcher EXCEPT
                           !.feed_timeout_count[url] = count,
                           !.problematic_feeds =
                               IF ReachedLimit(count) THEN @ \cup {url} ELSE @,
                           !.i = AfterTimeout(fetcher.i, Len(fetcher.rss_urls)),
                           !.log = Append(fetcher.log,
                                     [url |-> url, did |-> "timeout",
                                      items |-> <<>>])]
                    ELSE fetcher' = [fetcher EXCEPT
                           !.all_items = @ \o r.items,
                           !.feed_timeout_count[url] = 0,
                           !.i = fetcher.i + 1,
                           !.log = Append(fetcher.log,
                                     [url |-> url, did |-> "fetched",
                                      items |-> r.items])]
    /\ UNCHANGED <<mainVars, ledger, filter_call, item_call, startup, repo, race>>

\* rss_fetcher.py:175-177  sort and return
ReturnItems ==
    /\ fetcher.pc = "fetching"
    /\ fetcher.i > Len(fetcher.rss_urls)
    /\ fetcher' = [fetcher EXCEPT !.pc = "idle", !.i = 0,
                                  !.all_items = SortNewestFirst(@)]
    /\ UNCHANGED <<mainVars, ledger, filter_call, item_call, startup, repo, race>>

FetchNext ==
    \/ BeginFetchAll
    \/ SkipFeed
    \/ FetchFeed
    \/ ReturnItems

FetchStart ==
    MainOff /\ LedgerOff /\ FilterOff /\ ItemOff /\ StartOff /\ FetchInit
    /\ RepoOff /\ RaceOff

FetchSpec == FetchStart /\ [][FetchNext]_vars

\* ------------------------------------------- two processes, one ledger file

\* The processes that run main(), or any other user of PostHistory, against
\* the same history_file_path.
Procs == {1, 2}

\* No process has constructed its PostHistory yet.
\*   file        the file at history_file_path
\*   objs        per process: whether its PostHistory is alive, and its
\*               self.history (post_history.py:31)
\*   persisted   history: the urls that completed writes have put in the file
\*   overlapped  history: two processes held a PostHistory at the same time
\*   last        history: the last call, its process and whether it raised
RaceInit ==
    race \in [pc : {"on"}, file : FirstFiles,
              objs : {[p \in Procs |-> [live |-> FALSE, history |-> {}]]},
              persisted : {{}}, overlapped : {FALSE},
              last : {[name |-> "none", p |-> 1, raised |-> FALSE]}]

\* PostHistory.__init__ in process p (post_history.py:21-31): load
RaceConstruct(p) ==
    /\ race.pc = "on"
    /\ ~race.objs[p].live
    /\ \E dir_ok \in BOOLEAN :
         LET r == load_history(race.file, dir_ok)
         IN  race' = [race EXCEPT
                 !.objs[p] = [live |-> ~r.raised, history |-> r.history],
                 !.overlapped = @ \/ (~r.raised /\ \E q \in Procs \ {p} :
                                                      race.objs[q].live),
                 !.last = [name |-> "load", p |-> p, raised |-> r.raised]]
    /\ UNCHANGED <<mainVars, ledger, filter_call, item_call, startup, fetcher, repo>>

\* PostHistory.add_processed_url in process p (post_history.py:82-90):
\* mutate and persist.  A process that dies in the write is gone.
RaceAdd(p) ==
    /\ race.pc = "on"
    /\ race.objs[p].live
    /\ \E url \in Urls, outcome \in SaveOutcomes :
         LET r == PostHistory_add_processed_url(race.objs[p].history, race.file,
                                                url, FmtDate(FirstDay), outcome)
         IN  race' = [race EXCEPT
                 !.file = r.file,
                 !.objs[p] = IF outcome = "crash"
                             THEN [live |-> FALSE, history |-> {}]
                             ELSE [live |-> TRUE, history |-> r.history],
                 !.persisted = IF outcome = "ok"
                               THEN @ \cup UrlsOf(r.history) ELSE @,
                 !.last = [name |-> "add", p |-> p,
                           raised |-> SaveRaises(outcome)]]
    /\ UNCHANGED <<mainVars, ledger, filter_call, item_call, startup, fetcher, repo>>

\* Process p ends outside a write.
RaceEnd(p) ==
    /\ race.pc = "on"
    /\ race.objs[p].live
    /\ race' = [race EXCEPT
            !.objs[p] = [live |-> FALSE, history |-> {}],
            !.last = [name |-> "exit", p |-> p, raised |-> FALSE]]
    /\ UNCHANGED <<mainVars, ledger, filter_call, item_call, startup, fetcher, repo>>

RaceNext ==
    \E p \in Procs :
        \/ RaceConstruct(p)
        \/ RaceAdd(p)
        \/ RaceEnd(p)

RaceStart ==
    MainOff /\ LedgerOff /\ FilterOff /\ ItemOff /\ StartOff /\ FetchOff
    /\ RepoOff /\ RaceInit

RaceSpec == RaceStart /\ [][RaceNext]_vars

\* ------------------------------------------------- commit_and_push_changes

\* The phrases of a git error message the code looks for
\* (github_manager.py:643, 672).
Phrases ==
    {"could not read Username", "Authentication failed", "rejected", "divergent"}

NoError == [kind |-> "none", says |-> {}]

\* What a git call can raise: git.GitCommandError with a message that holds
\* some of the phrases, or another exception.
GitErrors == [kind : {"GitCommandError"}, says : SUBSET Phrases]

OtherError == [kind |-> "Exception", says |-> {}]

\* github_manager.py:643  the push failed for want of credentials
IsAuthError(error) ==
    "could not read Username" \in error.says
    \/ "Authentication failed" \in error.says

\* One of the two words is enough for the force push.
ShouldForceEither(error) ==
    "rejected" \in error.says \/ "divergent" \in error.says

\* github_manager.py:672  "rejected" in str(rebase_error)
\*                        and "divergent" in str(rebase_error)
ShouldForce(error) ==
    "rejected" \in error.says /\ "divergent" \in error.says

\* github_manager.py:683-685  except Exception: log and return False.  No
\* exception of the body leaves the method.
OuterCatches(error) == TRUE

\* A call of commit_and_push_changes begins.
\*   pc            the statement the call is at, or "returned"
\*   creds         github_token, github_username and github_repo are all set
\*   result        what the call returned
\*   raised        the call ended by an exception
\*   status        git status --porcelain: "clean" or "dirty"
\*   committed     git commit has made the commit of this call
\*   commit        where that commit is: "none", "local" (on the branch),
\*                 "mid_rebase" (a rebase stopped on it), "rebased"
\*   pushed        a push of the commit has succeeded
\*   push_error    what the plain push raised
\*   rebase_error  what fetch, rebase or the push after them raised
\*   force_tried   git push -f has been called
PushInit ==
    repo \in [pc : {"chdir"}, creds : BOOLEAN, result : {"none"},
              raised : {FALSE}, status : {"unknown"}, committed : {FALSE},
              commit : {"none"}, pushed : {FALSE}, push_error : {NoError},
              rebase_error : {NoError}, force_tried : {FALSE}]

\* return value (github_manager.py:621, 638, 655, 667, 677, 681)
Return(r, value) == [r EXCEPT !.pc = "returned", !.result = value]

\* An exception reaches the except clause of line 683.
Fail(r, error) ==
    IF OuterCatches(error) THEN Return(r, "False")
    ELSE [r EXCEPT !.pc = "returned", !.raised = TRUE]

RepoRest == <<mainVars, ledger, filter_call, item_call, startup, fetcher, race>>

\* github_manager.py:605  os.chdir(self.repo_path)
Chdir ==
    /\ repo.pc = "chdir"
    /\ \E ok \in BOOLEAN :
         repo' = IF ok THEN [repo EXCEPT !.pc = "add"] ELSE Fail(repo, OtherError)
    /\ UNCHANGED RepoRest

\* github_manager.py:608-615  git add through GitPython, else through the
\* git command; when both fail the error leaves the inner handler.
AddAll ==
    /\ repo.pc = "add"
    /\ \E how \in {"GitPython", "subprocess", "neither"} :
         repo' = IF how = "neither" THEN Fail(repo, OtherError)
                 ELSE [repo EXCEPT !.pc = "status"]
    /\ UNCHANGED RepoRest

\* github_manager.py:618-621  nothing to commit: return True
Status ==
    /\ repo.pc = "status"
    /\ \E status \in {"clean", "dirty", "raises"} :
         repo' = IF status = "raises" THEN Fail(repo, OtherError)
                 ELSE IF status = "clean"
                 THEN Return([repo EXCEPT !.status = "clean"], "True")
                 ELSE [repo EXCEPT !.status = "dirty", !.pc = "commit"]
    /\ UNCHANGED RepoRest

\* github_manager.py:628  git commit
Commit ==
    /\ repo.pc = "commit"
    /\ \E ok \in BOOLEAN :
         repo' = IF ok
                 THEN [repo EXCEPT !.pc = "branch", !.committed = TRUE,
                                   !.commit = "local"]
                 ELSE Fail(repo, OtherError)
    /\ UNCHANGED RepoRest

\* github_manager.py:631  self.repo.active_branch.name
ActiveBranch ==
    /\ repo.pc = "branch"
    /\ \E ok \in BOOLEAN :
         repo' = IF ok THEN [repo EXCEPT !.pc = "push"] ELSE Fail(repo, OtherError)
    /\ UNCHANGED RepoRest

\* github_manager.py:634-643  the plain push
Push ==
    /\ repo.pc = "push"
    /\ \E error \in {NoError, OtherError} \cup GitErrors :
         repo' = IF error = NoError
                 THEN Return([repo EXCEPT !.pushed = TRUE], "True")
                 ELSE IF error.kind # "GitCommandError" THEN Fail(repo, error)
                 ELSE [repo EXCEPT !.push_error = error,
                                   !.pc = IF IsAuthError(error) THEN "auth_fix"
                                          ELSE "rebase"]
    /\ UNCHANGED RepoRest

\* github_manager.py:645-657  put the token in the remote url and push again;
\* any failure is logged and the call goes on to the rebase.
AuthFix ==
    /\ repo.pc = "auth_fix"
    /\ \E url_set \in BOOLEAN, push_ok \in BOOLEAN :
         repo' = IF repo.creds /\ url_set /\ push_ok
                 THEN Return([repo EXCEPT !.pushed = TRUE], "True")
                 ELSE [repo EXCEPT !.pc = "rebase"]
    /\ UNCHANGED RepoRest

\* github_manager.py:661-681  fetch, rebase, push; on a GitCommandError go on
\* to the force push or return False.
RebaseAndPush ==
    /\ repo.pc = "rebase"
    /\ \E at \in {"none", "fetch", "rebase", "push"},
          error \in {OtherError} \cup GitErrors :
         LET commit == IF at = "fetch" THEN "local"
                       ELSE IF at = "rebase" THEN "mid_rebase"
                       ELSE "rebased"
             r == [repo EXCEPT !.commit = commit]
         IN  repo' = IF at = "none"
                     THEN Return([r EXCEPT !.pushed = TRUE], "True")
                     ELSE IF error.kind # "GitCommandError" THEN Fail(r, error)
                     ELSE IF ShouldForce(error)
                     THEN [r EXCEPT !.rebase_error = error, !.pc = "force"]
                     ELSE Return([r EXCEPT !.rebase_error = error], "False")
    /\ UNCHANGED RepoRest

\* github_manager.py:673-681  git push -f
ForcePush ==
    /\ repo.pc = "force"
    /\ \E error \in {NoError, OtherError,
                     [kind |-> "GitCommandError", says |-> {"rejected"}]} :
         LET r == [repo EXCEPT !.force_tried = TRUE]
         IN  repo' = IF error = NoError
                     THEN Return([r EXCEPT !.pushed = TRUE], "True")
                     ELSE IF error.kind # "GitCommandError" THEN Fail(r, error)
                     ELSE Return(r, "False")
    /\ UNCHANGED RepoRest

PushNext ==
    \/ Chdir
    \/ AddAll
    \/ Status
    \/ Commit
    \/ ActiveBranch
    \/ Push
    \/ AuthFix
    \/ RebaseAndPush
    \/ ForcePush

PushStart ==
    MainOff /\ LedgerOff /\ FilterOff /\ ItemOff /\ StartOff /\ FetchOff
    /\ PushInit /\ RaceOff

PushSpec == PushStart /\ [][PushNext]_vars

\* ------------------------------------------------------------------ claims

\* The attempts made in slot s of the current run.
SlotAttempts(s) == {i \in 1..Len(attempts) : attempts[i].slot = s}

\* The attempts of the current run that ended Published.
PublishedAttempts == {i \in 1..Len(attempts) : attempts[i].outcome = "result"}

\* The attempts of the current run whose item was relevant and whose post
\* file was written (create_post runs for relevant items only).
GoodAttempts == {i \in 1..Len(attempts) : attempts[i].written}

\* The links this run has added to the sheet.
MarkedThisRun == {sheet[i] : i \in (Len(sheet0) + 1)..Len(sheet)}

\* C1: no candidate passed to process_rss_item in a run has a link that the
\* ledger (the tracking sheet) held when the run started.
C1_NoDoublePublish ==
    \A i \in 1..Len(attempts) : attempts[i].link \notin Range(sheet0)

\* C3: when the loop ends with quota N = POSTS_PER_DAY, at least N candidates,
\* and every attempted item relevant with its post written, the batch holds
\* exactly N entries.
C3_QuotaBound ==
    ( /\ pc = "tail"
      /\ posts_per_day >= 0
      /\ Len(unprocessed_items) >= posts_per_day
      /\ GoodAttempts = 1..Len(attempts) )
    => /\ Len(processed_urls) = posts_per_day
       /\ Len(created_post_paths) = posts_per_day

\* C4: when the loop ends with every candidate attempted and only M < N of
\* them relevant and written, the batch holds exactly M entries.
C4_GracefulExhaustion ==
    ( /\ pc = "tail"
      /\ current_item_idx >= Len(unprocessed_items)
      /\ Len(attempts) = Len(unprocessed_items)
      /\ Cardinality(GoodAttempts) < posts_per_day )
    => Len(processed_urls) = Cardinality(GoodAttempts)

\* C5: a slot in which every attempted candidate came back not relevant has
\* consumed at most max_retries candidates.
C5_RetryCeiling ==
    \A s \in 1..slot :
        (\A i \in SlotAttempts(s) : attempts[i].outcome = "None")
        => Cardinality(SlotAttempts(s)) <= max_retries

\* C5 witness: a slot abandoned after exactly max_retries candidates, all of
\* them not relevant.
C5_Witness ==
    /\ pc = "outer"
    /\ slot >= 1
    /\ Cardinality(SlotAttempts(slot)) = max_retries
    /\ \A i \in SlotAttempts(slot) : attempts[i].outcome = "None"

\* C6: the i-th attempt of a run takes list position i (the index grows by
\* one per attempt, no position is taken twice); a candidate is attempted
\* only while fewer than num_posts posts are published and the list is not
\* exhausted; the loop is left only with the quota met or the list exhausted;
\* and a loop that has started is eventually left.
C6_Termination ==
    /\ [](\A i \in 1..Len(attempts) : attempts[i].pos = i)
    /\ [][(pc = "inner" /\ attempts' # attempts)
            => /\ current_item_idx' = current_item_idx + 1
               /\ successfully_processed < num_posts
               /\ current_item_idx < Len(unprocessed_items)]_vars
    /\ [](pc = "tail" => \/ successfully_processed >= num_posts
                         \/ current_item_idx >= Len(unprocessed_items))
    /\ (pc \in {"outer", "inner"} ~> pc = "tail")

\* C6 witness: the loop is over after three attempts that exhausted the list
\* without meeting the quota.
C6_Witness ==
    /\ pc = "tail"
    /\ Len(attempts) = 3
    /\ current_item_idx = Len(unprocessed_items)
    /\ successfully_processed < num_posts

\* C7: inside the selection loop the batch holds at most N = num_posts =
\* min(POSTS_PER_DAY, number of unprocessed items) entries, and never more
\* than max(N, 0); its three lists have the same length (one entry per
\* Published attempt); and with N <= 0 no candidate is attempted, nothing is
\* committed and nothing is marked.
C7_BatchSize ==
    /\ pc = "inner" => Len(processed_urls) <= num_posts
    /\ Len(processed_urls) <= (IF num_posts > 0 THEN num_posts ELSE 0)
    /\ Len(created_post_paths) = Len(processed_urls)
    /\ Len(automation_payloads) = Len(processed_urls)
    /\ Cardinality(PublishedAttempts) = Len(processed_urls)
    /\ num_posts <= 0 => /\ attempts = <<>>
                         /\ commit_calls = 0
                         /\ sheet = sheet0

\* C7 witness: a run with candidates but a quota of zero or less has
\* completed without an attempt.
C7_Witness ==
    /\ pc = "ended"
    /\ run_result = "completed"
    /\ unprocessed_items # <<>>
    /\ num_posts <= 0
    /\ attempts = <<>>
    /\ sheet = sheet0

\* C8: a link whose attempt in this run ended NotRelevant (None) or Failed
\* (AutoBlogError) is not among the links this run adds to the sheet.
C8_OnlyPublishedMarked ==
    \A i \in 1..Len(attempts) :
        attempts[i].outcome # "result" => attempts[i].link \notin MarkedThisRun

\* C8 witness: a run has completed after one NotRelevant and one Failed
\* attempt, and neither link is in the sheet.
C8_Witness ==
    /\ pc = "ended"
    /\ run_result = "completed"
    /\ \E i \in 1..Len(attempts) : attempts[i].outcome = "None"
    /\ \E i \in 1..Len(attempts) : attempts[i].outcome = "AutoBlogError"
    /\ \A i \in 1..Len(attempts) : attempts[i].link \notin Range(sheet)

\* The ledger a load of the file gives.
LedgerOf(file) == load_history(file, TRUE).history

\* The records of a ledger for one url.
RecordsFor(h, url) == {r \in h : r.url = url}

\* C11: a returning call add_processed_url(u) leaves exactly one record for u,
\* dated today, whether or not u was in the ledger before (a second call
\* only updates the date); is_url_processed(u) is true after it; and the records
\* of all other urls are as they were.
C11_MarkIdempotent ==
    [][(ledger.pc = "live" /\ ledger'.op.name = "add"
          /\ ledger'.op.save # "crash")
         => LET u == ledger'.op.urls[1]
            IN  /\ RecordsFor(ledger'.history, u) = {Entry(u, FmtDate(ledger.today))}
                /\ Cardinality(RecordsFor(ledger'.history, u)) = 1
                /\ is_url_processed(ledger'.history, u)
                /\ ledger'.history \ RecordsFor(ledger'.history, u)
                     = ledger.history \ RecordsFor(ledger.history, u)]_vars

\* C11 witness: add_processed_url has been called on a later day for a url
\* the ledger already held, next to a record of another url, and the ledger
\* holds one record for it.
C11_Witness ==
    /\ ledger.pc = "live"
    /\ ledger.op.name = "add"
    /\ ledger.op.had
    /\ ledger.today # FirstDay
    /\ Cardinality(RecordsFor(ledger.history, ledger.op.urls[1])) = 1
    /\ Cardinality(ledger.history) = 2

\* C12: clean_old_entries keeps exactly the records dated on or after the day
\* max_history_days before today (a record dated at the cutoff stays,
\* older ones go, newer ones are untouched); on an empty ledger it changes nothing
\* and writes nothing; and the file is written only when a record went.
C12_Pruning ==
    [][(ledger.pc = "live" /\ ledger'.op.name = "clean"
          /\ ledger'.op.save # "crash")
         => /\ ledger'.history = {r \in ledger.history :
                              DayOf(r.date) >= ledger.today - max_history_days}
            /\ ledger.history = {}
                 => (ledger'.history = {} /\ ledger'.file = ledger.file)
            /\ ledger'.history = ledger.history => ledger'.file = ledger.file
            /\ (ledger'.history # ledger.history /\ ledger'.op.save = "ok")
                 => ledger'.file = FileOf(ledger'.history)]_vars

\* C12 witness: a clean has dropped a record and kept one dated exactly at the
\* cutoff.
C12_Witness ==
    /\ ledger.pc = "live"
    /\ ledger.op.name = "clean"
    /\ ledger.op.save = "ok"
    /\ \E r \in ledger.history : DayOf(r.date) = ledger.today - max_history_days
    /\ ledger.file = FileOf(ledger.history)

\* C13: the ledger loaded after a process died holds every url that the file
\* held before and that the dying process had not dropped from its ledger.
C13_CrashDurability ==
    (ledger.pc = "live" /\ ledger.op.name = "load")
    => ledger.survive \subseteq UrlsOf(ledger.history)

\* C14: constructing PostHistory with the ledger file missing or unparsable
\* returns normally with an empty ledger.
C14_LoadNeverFails ==
    (ledger.op.name = "load" /\ ledger.file.state \in {"missing", "corrupt"})
    => /\ ~ledger.op.raised
       /\ ledger.pc = "live"
       /\ ledger.history = {}

\* C15: when the write of the file fails inside add_processed_url or
\* add_processed_urls, the call returns without raising and every url passed
\* is in the in-memory ledger; and a url in the in-memory ledger stays in it
\* for as long as the object lives.
C15_BestEffort ==
    /\ []((ledger.op.name \in {"add", "add_many"}
            /\ ledger.op.save \in {"open_fails", "dump_fails"})
           => /\ ~ledger.op.raised
              /\ ledger.pc = "live"
              /\ \A u \in Range(ledger.op.urls) : is_url_processed(ledger.history, u))
    /\ [][(ledger.pc = "live" /\ ledger'.pc = "live")
            => UrlsOf(ledger.history) \subseteq UrlsOf(ledger'.history)]_vars

\* C15 witness: add_processed_url has returned after a failed write, the url
\* is in memory and the file does not hold it.
C15_Witness ==
    /\ ledger.pc = "live"
    /\ ledger.op.name = "add"
    /\ ledger.op.save \in {"open_fails", "dump_fails"}
    /\ ~ledger.op.raised
    /\ is_url_processed(ledger.history, ledger.op.urls[1])
    /\ ~is_url_processed(LedgerOf(ledger.file), ledger.op.urls[1])

\* C16 as stated: add_processed_urls(urls), its write completing, leaves the
\* in-memory ledger and the persisted ledger as add_processed_url on each url
\* in turn does, and writes the file once.
C16_BatchEqualsEach ==
    [][(ledger.pc = "live" /\ ledger'.op.name = "add_many" /\ ledger'.op.save = "ok")
         => LET each == AddEach(ledger.history, ledger.file, ledger'.op.urls,
                               FmtDate(ledger.today))
            IN  /\ ledger'.history = each.history
                /\ LedgerOf(ledger'.file) = LedgerOf(each.file)
                /\ ledger'.op.writes = 1]_vars

\* C16 amended: the same for a non-empty list, or when the file holds the
\* in-memory ledger before the call; and for every list the single write
\* stores the ledger as it is after all urls are set.
C16_BatchEqualsEachNonEmpty ==
    [][(ledger.pc = "live" /\ ledger'.op.name = "add_many" /\ ledger'.op.save = "ok")
         => LET each == AddEach(ledger.history, ledger.file, ledger'.op.urls,
                               FmtDate(ledger.today))
            IN  /\ ledger'.history = each.history
                /\ (ledger'.op.urls # <<>> \/ LedgerOf(ledger.file) = ledger.history)
                     => LedgerOf(ledger'.file) = LedgerOf(each.file)
                /\ ledger'.file = FileOf(ledger'.history)
                /\ \A u \in Range(ledger'.op.urls) : is_url_processed(ledger'.history, u)
                /\ ledger'.op.writes = 1]_vars

\* C16 witness: add_processed_urls has stored a list of two different urls.
C16_Witness ==
    /\ ledger.pc = "live"
    /\ ledger.op.name = "add_many"
    /\ ledger.op.save = "ok"
    /\ Len(ledger.op.urls) = 2
    /\ ledger.op.urls[1] # ledger.op.urls[2]
    /\ ledger.file = FileOf(ledger.history)
    /\ Range(ledger.op.urls) \subseteq UrlsOf(ledger.history)

\* C17: no candidate passed to process_rss_item in a run of main() has a link
\* containing "sale".
C17_SaleNeverAttempted ==
    \A i \in 1..Len(attempts) : attempts[i].link \notin SaleLinks

\* How often x occurs in a list.
RECURSIVE CountOf(_, _)
CountOf(list, x) ==
    IF list = <<>> THEN 0
    ELSE (IF Head(list) = x THEN 1 ELSE 0) + CountOf(Tail(list), x)

\* C18: for every item list and every processed-url list, the list
\* filter_unprocessed_items returns is a permutation of the input items whose
\* link is not processed, whose link and description do not contain "sale"
\* and whose image_url begins with http.
C18_FilterResult ==
    filter_call.pc = "returned"
    => \A x \in FeedItems :
          CountOf(filter_call.result, x) =
              IF /\ x.link \notin Range(filter_call.processed_urls)
                 /\ x.link \notin SaleLinks
                 /\ x.description \notin {"sale", "Sale"}
                 /\ x.image_url = "http"
              THEN CountOf(filter_call.all_items, x)
              ELSE 0

\* C19: an attempt in which process_rss_item raises does not end main(): the
\* candidate is consumed, the slot's retry count grows by one and the loop
\* goes on; main() exits with an error only before the first attempt.
C19_ErrorsStayInLoop ==
    /\ [][(pc = "inner" /\ attempts' # attempts
             /\ attempts'[Len(attempts')].outcome = "AutoBlogError")
            => /\ pc' = "inner"
               /\ run_result' = "running"
               /\ current_item_idx' = current_item_idx + 1
               /\ retry_count' = retry_count + 1]_vars
    /\ [](run_result \in {"exit_1_config", "exit_1_init", "exit_1_unexpected"}
            => attempts = <<>>)

\* C19 witness: after a failed attempt the loop has gone on to the next
\* candidate, in the same slot.
C19_Witness ==
    /\ pc = "inner"
    /\ Len(attempts) = 2
    /\ attempts[1].outcome = "AutoBlogError"
    /\ attempts[2].slot = attempts[1].slot
    /\ run_result = "running"

\* C20: with either generator, a call of process_rss_item whose generator
\* fails unrecoverably raises out of generate_blog_post, ends Failed, writes
\* no post file and adds nothing to the batch.
C20_GenFailureIsFailed ==
    ( /\ item_call.pc = "returned"
      /\ GenFailed(item_call.in.provider, item_call.in.api, item_call.in.api2) )
    => /\ item_call.out.gen = "raise"
       /\ item_call.out.outcome = "AutoBlogError"
       /\ ~item_call.out.written
       /\ item_call.out.batch = <<>>

\* The calls that do the work of a run: setting up a component, pulling the
\* repository, fetching feeds (generation, ledger writes outside
\* clean_old_entries and the commit come after the fetch).
WorkSteps == Range(InitSteps) \cup {"get_config", "fetch_all_feeds"}

\* C22: when validate_config() returns at least one error, main() exits
\* (with code 1) having called nothing but validate_config: no component is
\* initialized, nothing is pulled, fetched, generated, written or committed.
C22_ConfigFailureAbortsFirst ==
    (startup.pc = "done" /\ startup.errors # {})
    => /\ Range(startup.steps) \cap WorkSteps = {}
       /\ startup.steps = <<"validate_config">>
       /\ startup.exit_code = 1

\* C22 witness: a start that ended on a missing RSS_FEEDS alone.
C22_Witness ==
    /\ startup.pc = "done"
    /\ startup.errors = {"RSS_FEEDS"}
    /\ startup.exit_code = 1

\* C23: a run of main() that completes, also one that publishes no post or
\* finds no new article, ends with exit code 0; a run that stops on a
\* configuration error or on a failed initialize_components ends with a
\* non-zero exit code.
C23_ExitCodes ==
    pc = "ended"
    => /\ run_result \in {"completed", "return_no_new"} => exit_code = 0
       /\ run_result \in {"exit_1_config", "exit_1_init"}
            => exit_code \notin {0, StillRunning}

\* C23 witness: a run that attempted candidates, published none and ended
\* with exit code 0.
C23_Witness ==
    /\ pc = "ended"
    /\ run_result = "completed"
    /\ attempts # <<>>
    /\ processed_urls = <<>>
    /\ exit_code = 0

\* A run that went through the selection loop and returned.
LoopRunEnded == pc = "ended" /\ run_result \in {"completed", "return_push_failed"}

\* C24: commit_and_push_changes is called exactly once in a run that went
\* through the selection loop, after the loop; never while the loop is
\* running and never more than once.
C24_PublishOncePerRun ==
    /\ commit_calls <= 1
    /\ pc \in {"outer", "inner", "tail"} => commit_calls = 0
    /\ LoopRunEnded => commit_calls = 1

\* C24 amended: commit_and_push_changes is called at most once in a run,
\* never before the selection loop has finished, and exactly when the final
\* batch is not empty: a run whose batch is empty does not call it.
C24_PublishAtMostOnce ==
    /\ commit_calls <= 1
    /\ pc \in {"idle", "outer", "inner", "tail"} => commit_calls = 0
    /\ LoopRunEnded => commit_calls = (IF processed_urls # <<>> THEN 1 ELSE 0)
    /\ (pc = "ended" /\ ~LoopRunEnded) => commit_calls = 0

\* C24 witness: a run that tried two candidates, kept none and ended
\* without a call of commit_and_push_changes.
C24_Witness ==
    /\ LoopRunEnded
    /\ Len(attempts) >= 2
    /\ processed_urls = <<>>
    /\ commit_calls = 0

\* C27: a run opens at most N = num_posts slots and attempts at most
\* N * max_retries candidates; an abandoned slot is not replaced.
C27_OneSlotPerQuota ==
    LET N == IF num_posts > 0 THEN num_posts ELSE 0
    IN  /\ slot <= N
        /\ Len(attempts) <= N * max_retries

\* The positions of rss_urls at which the last call met a timeout.
TimedOut == {k \in 1..Len(fetcher.log) : fetcher.log[k].did = "timeout"}

\* The number of items the feeds fetched at the positions from k on handed
\* to the last call.
RECURSIVE FetchedItems(_)
FetchedItems(k) ==
    IF k > Len(fetcher.log) THEN 0
    ELSE Len(fetcher.log[k].items) + FetchedItems(k + 1)

\* C25: a call of fetch_all_feeds in which a feed timed out has returned
\* (it did not raise) and has fetched every configured feed after that one;
\* the list returned holds the items of the feeds fetched.
C25_BadFeedDoesNotAbort ==
    (fetcher.pc = "idle" /\ TimedOut # {})
    => /\ Len(fetcher.log) = Len(fetcher.rss_urls)
       /\ \A k \in TimedOut : \A j \in (k + 1)..Len(fetcher.rss_urls) :
             Strip(fetcher.rss_urls[j]) # <<>>
             => fetcher.log[j].did \in {"fetched", "timeout"}
       /\ Len(fetcher.all_items) = FetchedItems(1)

\* C25 amended: such a call has returned and has fetched every configured
\* feed after that one whose url is not blank and does not contain a
\* problematic feed's url; the list returned holds the items of the feeds
\* fetched.
C25_BadFeedSkipsOnlyProblematic ==
    (fetcher.pc = "idle" /\ TimedOut # {})
    => /\ Len(fetcher.log) = Len(fetcher.rss_urls)
       /\ \A k \in TimedOut : \A j \in (k + 1)..Len(fetcher.rss_urls) :
             \/ fetcher.log[j].did \in {"fetched", "timeout"}
             \/ Strip(fetcher.rss_urls[j]) = <<>>
             \/ \E m \in 1..Len(fetcher.rss_urls) :
                   /\ fetcher.rss_urls[m] \in fetcher.problematic_feeds
                   /\ IsSubstring(fetcher.rss_urls[m], fetcher.rss_urls[j])
       /\ Len(fetcher.all_items) = FetchedItems(1)
       /\ \A j \in 1..Len(fetcher.log) : \A n \in 1..Len(fetcher.log[j].items) :
             \E m \in 1..Len(fetcher.all_items) :
                fetcher.all_items[m] = fetcher.log[j].items[n]

\* C25 witness: a call whose first feed timed out and whose second feed
\* delivered an item, which the call returned.
C25_Witness ==
    /\ fetcher.pc = "idle"
    /\ Len(fetcher.log) = 2
    /\ fetcher.log[1].did = "timeout"
    /\ fetcher.log[2].did = "fetched"
    /\ fetcher.log[2].items # <<>>
    /\ fetcher.all_items = fetcher.log[2].items

\* C26: the list one call of fetch_all_feeds returned holds no two items
\* with the same link.
C26_Deduplicated ==
    fetcher.pc = "idle"
    => \A m, n \in 1..Len(fetcher.all_items) :
          m # n => fetcher.all_items[m].link # fetcher.all_items[n].link

\* C29: no url's timeout count exceeds max_consecutive_timeouts; a url whose
\* count has reached it is a problematic feed and is not fetched again; a
\* fetch that does not time out removes the url's count; no url leaves
\* problematic_feeds.
C29_TimeoutTracking ==
    /\ [](\A u \in FeedUrls :
            /\ fetcher.feed_timeout_count[u] <= max_consecutive_timeouts
            /\ fetcher.feed_timeout_count[u] >= max_consecutive_timeouts
                 => u \in fetcher.problematic_feeds)
    /\ [][fetcher.pc # "off" =>
            /\ fetcher.problematic_feeds \subseteq fetcher'.problematic_feeds
            /\ Len(fetcher'.log) = Len(fetcher.log) + 1 =>
                 LET step == fetcher'.log[Len(fetcher'.log)]
                 IN  /\ step.did \in {"fetched", "timeout"}
                          => /\ fetcher.feed_timeout_count[step.url]
                                   < max_consecutive_timeouts
                             /\ step.url \notin fetcher.problematic_feeds
                     /\ step.did = "fetched"
                          => fetcher'.feed_timeout_count[step.url] = 0
                     /\ fetcher.feed_timeout_count[step.url]
                            >= max_consecutive_timeouts
                          => step.did = "problematic"]_vars

\* C29 witness: a call has skipped a feed whose second timeout in a row, in
\* an earlier call, made it problematic.
C29_Witness ==
    /\ fetcher.pc = "idle"
    /\ \E k \in 1..Len(fetcher.log) :
          /\ fetcher.log[k].did = "problematic"
          /\ fetcher.feed_timeout_count[fetcher.log[k].url]
                = max_consecutive_timeouts
          /\ fetcher.log[k].url \in fetcher.problematic_feeds
    /\ \A k \in 1..Len(fetcher.log) : fetcher.log[k].did # "timeout"

\* C28: as long as no two processes have held a PostHistory at the same
\* time, the ledger a process loads holds every mark a completed write of an
\* earlier run has put in the file (nothing is pruned within the day).
C28_SingleWriterKeepsMarks ==
    (race.pc = "on" /\ race.last.name = "load" /\ ~race.last.raised
       /\ ~race.overlapped)
    => race.persisted \subseteq UrlsOf(race.objs[race.last.p].history)

\* C30: commit_and_push_changes does not raise; it returns True exactly when
\* there was nothing to commit or a push of the commit it made succeeded, and
\* False otherwise; it calls git push -f only after the plain push and the
\* fetch-rebase-push have failed with an error that holds both "rejected"
\* and "divergent"; when it returns False the commit it made is still in the
\* repository.
C30_PushLadder ==
    /\ ~repo.raised
    /\ repo.force_tried
         => /\ repo.push_error.kind = "GitCommandError"
            /\ repo.rebase_error.kind = "GitCommandError"
            /\ {"rejected", "divergent"} \subseteq repo.rebase_error.says
    /\ repo.pc = "returned"
         => /\ repo.result \in {"True", "False"}
            /\ repo.result = "True" <=> (repo.status = "clean" \/ repo.pushed)
            /\ repo.pushed => repo.committed
            /\ (repo.result = "False" /\ repo.committed) => repo.commit # "none"

\* C30 witness: the call returned False after the plain push, the rebase and
\* the force push all failed; the commit is on the rebased branch.
C30_Witness ==
    /\ repo.pc = "returned"
    /\ repo.result = "False"
    /\ repo.force_tried
    /\ repo.committed
    /\ repo.commit = "rebased"
    /\ ~repo.pushed

====
